---- MODULE Spec2Model ----
(***************************************************************************)
(* Model of the jpod_nano playback core (src/src/audio/player.cpp,         *)
(* player.hpp) and of the CLI key handler (src/src/cli/cli.cpp).           *)
(*                                                                         *)
(* Two program threads run Player code: "cmd" (the thread that issues      *)
(* commands: the owner, or the CLI's input thread and its shutdown) and    *)
(* "str" (Player::player_thread).  Each has a program                      *)
(* counter pc[t]; op[t] is the outermost Player method it is executing.    *)
(* Every fade_to() task is a third kind of activity, one per waiting       *)
(* thread (pause/resume wait for their own fade).                          *)
(*                                                                         *)
(* Units: time is in whole seconds; volume is fixed point in tenths,       *)
(* VOLUME_FULL = 10 stands for 1.0F; one decoded frame is one second of    *)
(* audio.                                                                  *)
(***************************************************************************)
EXTENDS Integers, Sequences, FiniteSets, TLC

\* ---- bounds of the model ----
MaxTime  == 1     \* the clock ticks from 0 to MaxTime
MaxCmds  == 4     \* number of commands the command thread issues
SeekCmds == 3     \* the same, in the specification of the rejected seek
NavCmds  == 3     \* the same, in the specification of next_song / prev_song
VolCmds  == 3     \* the same, in the specification of the volume commands
MaxSongs == 3     \* largest folder in the specification of the Playlist alone
QuitCmds == 2     \* the same, in the specification of the CLI
RetCmds  == 3     \* the same, in the specification of the returns
OffCmds  == 2     \* the same, in the specification of the shutdown
QueueCmds == 3    \* the same, in the specification of the backlog
NSongs   == 2     \* number of tracks of the Track Source

\* ---- program constants ----
VOLUME_FULL == 10
VOLUME_MUTE == 0
N_STEPS == 10
BUFFER_MULTIPLIER == 32

Threads == {"cmd", "str"}
\* a fade_to task belongs to the thread that awaits it inside pause, resume or
\* next_song, or to a caller of fade_to that keeps the future ("usr")
FadeOwners == Threads \cup {"usr"}
Songs   == 1..NSongs
States  == {"STOPPED", "PAUSE", "PLAY", "SWITCH_OFF"}

\* a further file, longer than the backlog the streaming loop allows
LongSong == NSongs + 1

\* duration (seconds, = frames) of a track; the decoder reports it on load
Duration(s) == IF s = LongSong THEN BUFFER_MULTIPLIER + 2 ELSE s

VARIABLES
  state,            \* state_
  volume,           \* volume_
  last_volume,      \* last_volume_
  elapsed_seconds,  \* elapsed_seconds_
  elapsed_duration, \* elapsed_duration_
  start_time,       \* start_time_
  total_seconds,    \* total_seconds_
  audio_device,     \* audio_device_: "none", "invalid" (id 0) or "open"
  devPaused,        \* SDL pause flag of the device audio_device_ denotes
  queued,           \* SDL_GetQueuedAudioSize of that device, in buffers
  leaked,           \* some opened device is no longer referenced nor closed
  audio_mutex,      \* owner of audio_mutex_, or "free"
  decTrack,         \* track opened in mpg_handler_, 0 if none
  decPos,           \* decoder position in frames
  playlist,         \* playlist_ != nullptr
  index,            \* Playlist::index_
  now,              \* steady_clock::now()
  pc, op,           \* per thread: position, outermost method
  arg,              \* per thread: argument of the running method
  fade,             \* per thread: the fade_to task it launched
  lastRead,         \* result of the last mpg123_read of stream_audio
  sk,               \* locals of seek_relative (current, target) and, for the
                    \* properties, the time and the Playing state it found
                    \* (at, on) and the same of the seek before it (p...)
  crashed,          \* an exception left player_thread: std::terminate
  ncmd,             \* commands issued so far
  budget,           \* number of commands the command thread will issue
  pcD,              \* position of ~Player
  stopReq,          \* stop requested on player_thread_'s token
  ret,              \* what the last command of the command thread returned
  eotIdx,           \* cursor when player_thread closed the exhausted track
  title, artist,    \* title_, artist_ ("" is the empty string)
  shuffle_order,    \* Playlist::shuffle_order_ (indices into songs_, from 0)
  caller,           \* locals of the calling thread: what get_volume() returned
                    \* in adjust_volume (got), the target of the fade_to
                    \* whose future it holds (target), the time pause() read
                    \* at line 148 (now)
  pl,               \* for the properties: the last two calls on the Playlist,
                    \* the cursor before each, what the last returned
  cli               \* CLI: running_, sigint_received_, the position of the
                    \* thread in start() / ~CLI (main) and of input_loop (inp)

playerVars == <<state, volume, last_volume, elapsed_seconds, elapsed_duration,
                start_time, total_seconds>>
devVars    == <<audio_device, devPaused, queued, leaked>>
decVars    == <<decTrack, decPos>>
plVars     == <<playlist, index>>
ctlVars    == <<pc, op, arg, fade, lastRead, sk, crashed, ncmd, pcD, stopReq,
                ret, eotIdx>>
metaVars   == <<title, artist>>
restVars   == <<budget, metaVars, shuffle_order, caller, pl, cli>>
vars == <<playerVars, devVars, audio_mutex, decVars, plVars, now, ctlVars,
          restVars>>

Clamp(x, lo, hi) == IF x < lo THEN lo ELSE IF x > hi THEN hi ELSE x

\* C++ division of the fixed-point volume difference (rounds toward zero)
TruncDiv(a, b) == IF a >= 0 THEN a \div b ELSE -((-a) \div b)

NoFade == [st |-> "none", target |-> 0, step |-> 0, i |-> 0]
\* locals of the running (or last) seek_relative, and of the one before it
NoSeek == [current |-> 0, target |-> 0, delta |-> 0, at |-> 0, on |-> FALSE,
           pcur |-> 0, pdelta |-> 0, pat |-> 0, pon |-> FALSE]
NoRet  == [op |-> "none", res |-> "none"]

\* CLI::CLI: running_{true}, sigint_received_{false}; start() not called
NoCli == [running |-> TRUE, sigint |-> FALSE, main |-> "off", inp |-> "off"]

\* no call on the Playlist yet
NoPl == [op |-> "none", prevOp |-> "none", before |-> 0, before2 |-> 0,
         track |-> 0, answer |-> FALSE, run |-> 0, start |-> 0, reach |-> {}]

\* the state after Player::Player() and Playlist::Playlist(folder) for a
\* folder of size tracks, with n commands to come
InitOf(n, size) ==
  /\ budget = n
  /\ state = "STOPPED"
  /\ volume = VOLUME_FULL
  /\ last_volume = VOLUME_FULL
  /\ elapsed_seconds = 0
  /\ elapsed_duration = 0
  /\ start_time = 0
  /\ total_seconds = 0
  /\ audio_device = "invalid"
  /\ devPaused = TRUE
  /\ queued = 0
  /\ leaked = FALSE
  /\ audio_mutex = "free"
  /\ decTrack = 0
  /\ decPos = 0
  /\ playlist = FALSE
  /\ index = 0
  /\ now = 0
  /\ pc = [t \in Threads |-> IF t = "cmd" THEN "idle" ELSE "loop"]
  /\ op = [t \in Threads |-> "none"]
  /\ arg = [t \in Threads |-> 0]
  /\ fade = [t \in FadeOwners |-> NoFade]
  /\ lastRead = "none"
  /\ sk = NoSeek
  /\ crashed = FALSE
  /\ ncmd = 0
  /\ pcD = "idle"
  /\ stopReq = FALSE
  /\ ret = NoRet
  /\ eotIdx = -1
  /\ title = "" /\ artist = ""
  /\ shuffle_order = [k \in 1..size |-> k - 1]
  /\ caller = [got |-> 0, target |-> 0, now |-> 0]
  /\ pl = NoPl
  /\ cli = NoCli

InitWith(n) == InitOf(n, NSongs)

Init == InitWith(MaxCmds)

\* ---- control-flow helpers ----
Home(t) == IF t = "cmd" THEN "idle" ELSE "loop"

\* the outermost method of thread t returns with result res
Return(t, res) ==
  /\ pc' = [pc EXCEPT ![t] = Home(t)]
  /\ op' = [op EXCEPT ![t] = "none"]
  /\ arg' = [arg EXCEPT ![t] = 0]
  /\ ret' = IF t = "cmd" THEN [op |-> op[t], res |-> res] ELSE ret
  /\ eotIdx' = IF t = "str" THEN -1 ELSE eotIdx

\* continue at label l; "ret" leaves the outermost method
Goto(t, l) ==
  IF l = "ret"
  THEN Return(t, "ok")
  ELSE /\ pc' = [pc EXCEPT ![t] = l]
       /\ UNCHANGED <<op, arg, ret, eotIdx>>

AfterPause(t)  == IF op[t] \in {"next", "prev", "auto"} THEN "n_adv" ELSE "ret"
AfterLoad(t)   == IF op[t] \in {"next", "prev", "auto"} THEN "r_begin" ELSE "ret"
AfterResume(t) == IF op[t] = "seek" THEN "sk_unlock" ELSE "ret"

\* thread t is at label l, and the process has not been terminated
At(t, l) == ~crashed /\ pc[t] = l

\* an exception leaves the running method: on player_thread nothing catches
\* it (std::terminate); on the command thread it reaches the caller
Throw(t) ==
  IF t = "str"
  THEN /\ crashed' = TRUE
       /\ UNCHANGED <<pc, op, arg, ret, eotIdx>>
  ELSE /\ Return(t, "error")
       /\ UNCHANGED crashed

\* ---- fade_to: the asynchronous task launched by thread t ----
Launch(t, target) ==
  fade' = [fade EXCEPT ![t] = [st |-> "start", target |-> target, step |-> 0, i |-> 0]]

\* a store of the argument as it is
StoreUnclamped(vol) == vol

\* a lower bound only
ClampBelow(vol) == IF vol < VOLUME_MUTE THEN VOLUME_MUTE ELSE vol

\* Player::set_volume
set_volume(vol) == Clamp(vol, VOLUME_MUTE, VOLUME_FULL)

\* auto step = (target - get_volume()) / N_STEPS
FadeStart(t) ==
  /\ ~crashed /\ fade[t].st = "start"
  /\ fade' = [fade EXCEPT ![t].st = "loop",
                          ![t].step = TruncDiv(fade[t].target - volume, N_STEPS)]
  /\ UNCHANGED <<playerVars, devVars, audio_mutex, decVars, plVars, now,
                 pc, op, arg, lastRead, sk, crashed, ncmd, pcD, stopReq>>
  /\ UNCHANGED <<ret, eotIdx>>
  /\ UNCHANGED restVars

\* one iteration: set_volume(get_volume() + step), then sleep
FadeStep(t) ==
  /\ ~crashed /\ fade[t].st = "loop"
  /\ fade[t].i < N_STEPS
  /\ volume' = set_volume(volume + fade[t].step)
  /\ fade' = [fade EXCEPT ![t].i = @ + 1]
  /\ UNCHANGED <<state, last_volume, elapsed_seconds, elapsed_duration,
                 start_time, total_seconds, devVars, audio_mutex, decVars,
                 plVars, now, pc, op, arg, lastRead, sk, crashed, ncmd, pcD,
                 stopReq>>
  /\ UNCHANGED <<ret, eotIdx>>
  /\ UNCHANGED restVars

\* the future becomes ready after the loop, with no further store
FadeFinalNoStore(t) ==
  /\ ~crashed /\ fade[t].st = "loop"
  /\ fade[t].i = N_STEPS
  /\ fade' = [fade EXCEPT ![t] = [NoFade EXCEPT !.st = "done"]]
  /\ UNCHANGED <<playerVars, devVars, audio_mutex, decVars, plVars, now, pc,
                 op, arg, lastRead, sk, crashed, ncmd, pcD, stopReq>>
  /\ UNCHANGED <<ret, eotIdx>>
  /\ UNCHANGED restVars

\* set_volume(target) after the loop; the future becomes ready
FadeFinal(t) ==
  /\ ~crashed /\ fade[t].st = "loop"
  /\ fade[t].i = N_STEPS
  /\ volume' = set_volume(fade[t].target)
  /\ fade' = [fade EXCEPT ![t] = [NoFade EXCEPT !.st = "done"]]
  /\ UNCHANGED <<state, last_volume, elapsed_seconds, elapsed_duration,
                 start_time, total_seconds, devVars, audio_mutex, decVars,
                 plVars, now, pc, op, arg, lastRead, sk, crashed, ncmd, pcD,
                 stopReq>>
  /\ UNCHANGED <<ret, eotIdx>>
  /\ UNCHANGED restVars

\* ---- Player::pause_audio_device / resume_audio_device ----
\* SDL_PauseAudioDevice on id 0 (no device) has no effect
PausedAfter(flag) ==
  IF audio_device = "open" THEN flag ELSE devPaused

\* ---- Player::pause ----
\* lines 145-150: the SWITCH_OFF check and the elapsed accumulation
PauseBegin(t) ==
  /\ At(t, "p_begin")
  /\ IF state = "SWITCH_OFF"
     THEN /\ Goto(t, AfterPause(t))
          /\ UNCHANGED elapsed_duration
     ELSE /\ elapsed_duration' = elapsed_duration + (now - start_time)
          /\ Goto(t, "p_snap")
  /\ caller' = IF t = "cmd" /\ state # "SWITCH_OFF"
               THEN [caller EXCEPT !.now = now] ELSE caller
  /\ UNCHANGED <<state, volume, last_volume, elapsed_seconds, start_time,
                 total_seconds, devVars, audio_mutex, decVars, plVars, now,
                 fade, lastRead, sk, crashed, ncmd, pcD, stopReq>>
  /\ UNCHANGED <<budget, metaVars, shuffle_order, pl, cli>>

\* lines 151-154: snapshot of the volume, launch of the fade to mute
PauseSnap(t) ==
  /\ At(t, "p_snap")
  /\ last_volume' = IF state # "PAUSE" THEN volume ELSE last_volume
  /\ Launch(t, VOLUME_MUTE)
  /\ Goto(t, "p_dev")
  /\ UNCHANGED <<state, volume, elapsed_seconds, elapsed_duration, start_time,
                 total_seconds, devVars, audio_mutex, decVars, plVars, now,
                 lastRead, sk, crashed, ncmd, pcD, stopReq>>
  /\ UNCHANGED restVars

\* lines 155-156: fade_future.wait(), pause_audio_device()
PauseDev(t) ==
  /\ At(t, "p_dev")
  /\ fade[t].st = "done"
  /\ fade' = [fade EXCEPT ![t] = NoFade]
  /\ devPaused' = PausedAfter(TRUE)
  /\ Goto(t, "p_store")
  /\ UNCHANGED <<playerVars, audio_device, queued, leaked, audio_mutex,
                 decVars, plVars, now, lastRead, sk, crashed, ncmd, pcD,
                 stopReq>>
  /\ UNCHANGED restVars

\* a pause() that stores PAUSE only over PLAY (used to test PauseReturnsPaused)
PauseStoreIfPlaying(t) ==
  /\ At(t, "p_store")
  /\ state' = IF state = "PLAY" THEN "PAUSE" ELSE state
  /\ Goto(t, AfterPause(t))
  /\ caller' = IF t = "cmd" THEN [caller EXCEPT !.now = 0] ELSE caller
  /\ UNCHANGED <<volume, last_volume, elapsed_seconds, elapsed_duration,
                 start_time, total_seconds, devVars, audio_mutex, decVars,
                 plVars, now, fade, lastRead, sk, crashed, ncmd, pcD, stopReq>>
  /\ UNCHANGED <<budget, metaVars, shuffle_order, pl, cli>>

\* line 157: state_.store(State::PAUSE)
PauseStore(t) ==
  /\ At(t, "p_store")
  /\ state' = "PAUSE"
  /\ Goto(t, AfterPause(t))
  /\ caller' = IF t = "cmd" THEN [caller EXCEPT !.now = 0] ELSE caller
  /\ UNCHANGED <<volume, last_volume, elapsed_seconds, elapsed_duration,
                 start_time, total_seconds, devVars, audio_mutex, decVars,
                 plVars, now, fade, lastRead, sk, crashed, ncmd, pcD, stopReq>>
  /\ UNCHANGED <<budget, metaVars, shuffle_order, pl, cli>>

\* ---- Player::resume ----
\* lines 161-165: SWITCH_OFF check, start_time_, resume_audio_device()
ResumeBegin(t) ==
  /\ At(t, "r_begin")
  /\ IF state = "SWITCH_OFF"
     THEN /\ Goto(t, AfterResume(t))
          /\ UNCHANGED <<start_time, devPaused>>
     ELSE /\ start_time' = now
          /\ devPaused' = PausedAfter(FALSE)
          /\ Goto(t, "r_fade")
  /\ UNCHANGED <<state, volume, last_volume, elapsed_seconds, elapsed_duration,
                 total_seconds, audio_device, queued, leaked, audio_mutex,
                 decVars, plVars, now, fade, lastRead, sk, crashed, ncmd, pcD,
                 stopReq>>
  /\ UNCHANGED restVars

\* line 166: fade_to(last_volume_.load())
ResumeFade(t) ==
  /\ At(t, "r_fade")
  /\ Launch(t, last_volume)
  /\ Goto(t, "r_store")
  /\ UNCHANGED <<playerVars, devVars, audio_mutex, decVars, plVars, now,
                 lastRead, sk, crashed, ncmd, pcD, stopReq>>
  /\ UNCHANGED restVars

\* lines 167-168: fade_future.wait(), state_.store(State::PLAY)
ResumeStore(t) ==
  /\ At(t, "r_store")
  /\ fade[t].st = "done"
  /\ fade' = [fade EXCEPT ![t] = NoFade]
  /\ state' = "PLAY"
  /\ Goto(t, AfterResume(t))
  /\ UNCHANGED <<volume, last_volume, elapsed_seconds, elapsed_duration,
                 start_time, total_seconds, devVars, audio_mutex, decVars,
                 plVars, now, lastRead, sk, crashed, ncmd, pcD, stopReq>>
  /\ UNCHANGED restVars

\* ---- Playlist (cursor over the track list) ----
\* Playlist::current: songs_.at(shuffle_order_[index_])
CurrentSong(i) == shuffle_order[i + 1] + 1

\* Playlist::next
PlaylistNext(i) == (i + 1) % Len(shuffle_order)

\* a step back that stops at the first position
PrevSaturating(i) == IF i = 0 THEN 0 ELSE i - 1

\* Playlist::prev
PlaylistPrev(i) ==
  ((IF i = 0 THEN Len(shuffle_order) ELSE i) - 1) % Len(shuffle_order)

\* a test that also holds at the last position
HasNextInclusive(i) == i + 1 <= Len(shuffle_order)

\* Playlist::has_next: index_ + 1 < songs_.size()
has_next(i) == i + 1 < Len(shuffle_order)

\* Playlist::has_prev: index_ > 0
has_prev(i) == i > 0

\* the tracks that k calls of next() starting at cursor i return
RECURSIVE NextTracks(_, _)
NextTracks(i, k) ==
  IF k = 0 THEN {}
  ELSE {CurrentSong(PlaylistNext(i))} \cup NextTracks(PlaylistNext(i), k - 1)

\* std::iota followed by std::shuffle with a random seed: any arrangement
\* of 0 .. songs_.size() - 1
ShuffleResults ==
  {f \in [1..Len(shuffle_order) -> 0..(Len(shuffle_order) - 1)] :
     \A a, b \in 1..Len(shuffle_order) : a # b => f[a] # f[b]}

\* the history of calls after a call o made at cursor index
Called(o, track, answer) ==
  [op |-> o, prevOp |-> pl.op, before |-> index, before2 |-> pl.before,
   track |-> track, answer |-> answer,
   run |-> IF o # "next" THEN 0
           ELSE IF pl.op = "next" /\ pl.run < Len(shuffle_order) THEN pl.run + 1
           ELSE 1,
   start |-> IF o # "next" THEN 0
             ELSE IF pl.op = "next" /\ pl.run < Len(shuffle_order) THEN pl.start
             ELSE index,
   reach |-> IF o = "reshuffle" THEN NextTracks(index, Len(shuffle_order)) ELSE {}]

\* Playlist::next, called on the Playlist alone
Playlist_next ==
  /\ index' = PlaylistNext(index)
  /\ pl' = Called("next", CurrentSong(index'), FALSE)
  /\ UNCHANGED <<playerVars, devVars, audio_mutex, decVars, playlist, now,
                 ctlVars, budget, metaVars, shuffle_order, caller, cli>>

\* Playlist::prev
Playlist_prev ==
  /\ index' = PlaylistPrev(index)
  /\ pl' = Called("prev", CurrentSong(index'), FALSE)
  /\ UNCHANGED <<playerVars, devVars, audio_mutex, decVars, playlist, now,
                 ctlVars, budget, metaVars, shuffle_order, caller, cli>>

\* Playlist::has_next (const)
Playlist_has_next ==
  /\ pl' = Called("has_next", 0, has_next(index))
  /\ UNCHANGED <<playerVars, devVars, audio_mutex, decVars, plVars, now,
                 ctlVars, budget, metaVars, shuffle_order, caller, cli>>

\* Playlist::has_prev (const)
Playlist_has_prev ==
  /\ pl' = Called("has_prev", 0, has_prev(index))
  /\ UNCHANGED <<playerVars, devVars, audio_mutex, decVars, plVars, now,
                 ctlVars, budget, metaVars, shuffle_order, caller, cli>>

\* a reshuffle that leaves the cursor where it is
ReshuffleKeepingCursor ==
  /\ shuffle_order' \in ShuffleResults
  /\ pl' = Called("reshuffle", 0, FALSE)
  /\ UNCHANGED <<playerVars, devVars, audio_mutex, decVars, plVars, now,
                 ctlVars, budget, metaVars, caller, cli>>

\* Playlist::reshuffle
Playlist_reshuffle ==
  /\ shuffle_order' \in ShuffleResults
  /\ index' = 0
  /\ pl' = Called("reshuffle", 0, FALSE)
  /\ UNCHANGED <<playerVars, devVars, audio_mutex, decVars, playlist, now,
                 ctlVars, budget, metaVars, caller, cli>>

\* ---- Player::load_song ----
\* line 86: state_.store(State::STOPPED)
LoadStop(t) ==
  /\ At(t, "l_stop")
  /\ state' = "STOPPED"
  /\ Goto(t, "l_pdev")
  /\ UNCHANGED <<volume, last_volume, elapsed_seconds, elapsed_duration,
                 start_time, total_seconds, devVars, audio_mutex, decVars,
                 plVars, now, fade, lastRead, sk, crashed, ncmd, pcD, stopReq>>
  /\ UNCHANGED restVars

\* lines 87-90: pause_audio_device() under the mutex
LoadPauseDev(t) ==
  /\ At(t, "l_pdev")
  /\ audio_mutex = "free"
  /\ devPaused' = PausedAfter(TRUE)
  /\ Goto(t, "l_open")
  /\ UNCHANGED <<playerVars, audio_device, queued, leaked, audio_mutex,
                 decVars, plVars, now, fade, lastRead, sk, crashed, ncmd, pcD,
                 stopReq>>
  /\ UNCHANGED restVars

\* lines 92-107: mpg123_open (which first closes the open track), format,
\* total_seconds_; a file that cannot be opened throws
LoadOpen(t) ==
  /\ At(t, "l_open")
  /\ \E ok \in BOOLEAN :
       IF ok
       THEN /\ decTrack' = arg[t]
            /\ decPos' = 0
            /\ total_seconds' = Duration(arg[t])
            /\ Goto(t, "l_reset")
            /\ UNCHANGED crashed
       ELSE /\ decTrack' = 0
            /\ decPos' = 0
            /\ UNCHANGED total_seconds
            /\ Throw(t)
  /\ UNCHANGED <<state, volume, last_volume, elapsed_seconds, elapsed_duration,
                 start_time, devVars, audio_mutex, plVars, now, fade, lastRead,
                 sk, ncmd, pcD, stopReq>>
  /\ UNCHANGED restVars

\* the embedded tags of the tracks: track 1 has ID3 tags with a title and
\* an artist, the other tracks have none
HasTags(s)  == s = 1
TitleOf(s)  == IF HasTags(s) THEN "title1" ELSE ""
ArtistOf(s) == IF HasTags(s) THEN "artist1" ELSE ""

\* lines 108-109: elapsed_seconds_ = 0, elapsed_duration_ = 0;
\* lines 111-124: title_ and artist_ are assigned only if the file has ID3
LoadReset(t) ==
  /\ At(t, "l_reset")
  /\ elapsed_seconds' = 0
  /\ elapsed_duration' = 0
  /\ IF HasTags(decTrack)
     THEN title' = TitleOf(decTrack) /\ artist' = ArtistOf(decTrack)
     ELSE UNCHANGED metaVars
  /\ Goto(t, "l_dev")
  /\ UNCHANGED <<state, volume, last_volume, start_time, total_seconds,
                 devVars, audio_mutex, decVars, plVars, now, fade, lastRead,
                 sk, crashed, ncmd, pcD, stopReq>>
  /\ UNCHANGED <<budget, shuffle_order, caller, pl, cli>>

\* lines 134-141: under the mutex, audio_device_ = SDL_OpenAudioDevice(...)
\* (the device opened before is not closed), throw if it is 0, else pause it
LoadDev(t) ==
  /\ At(t, "l_dev")
  /\ audio_mutex = "free"
  /\ leaked' = (leaked \/ audio_device = "open")
  /\ queued' = 0
  /\ devPaused' = TRUE
  /\ \E ok \in BOOLEAN :
       IF ok
       THEN /\ audio_device' = "open"
            /\ Goto(t, AfterLoad(t))
            /\ UNCHANGED crashed
       ELSE /\ audio_device' = "invalid"
            /\ Throw(t)
  /\ UNCHANGED <<playerVars, audio_mutex, decVars, plVars, now, fade,
                 lastRead, sk, ncmd, pcD, stopReq>>
  /\ UNCHANGED restVars

\* ---- Player::next_song / prev_song ----
\* lines 69, 77: if (playlist_), then pause()
NextChk(t) ==
  /\ At(t, "n_chk")
  /\ Goto(t, IF playlist THEN "p_begin" ELSE "ret")
  /\ UNCHANGED <<playerVars, devVars, audio_mutex, decVars, plVars, now, fade,
                 lastRead, sk, crashed, ncmd, pcD, stopReq>>
  /\ UNCHANGED restVars

\* lines 71, 79: playlist_->next() or prev(), the argument of load_song
NextAdv(t) ==
  /\ At(t, "n_adv")
  /\ index' = IF op[t] = "prev" THEN PlaylistPrev(index) ELSE PlaylistNext(index)
  /\ pc' = [pc EXCEPT ![t] = "l_stop"]
  /\ arg' = [arg EXCEPT ![t] = CurrentSong(index')]
  /\ UNCHANGED <<playerVars, devVars, audio_mutex, decVars, playlist, now, op,
                 fade, lastRead, sk, crashed, ncmd, pcD, stopReq>>
  /\ UNCHANGED <<ret, eotIdx>>
  /\ UNCHANGED restVars

\* ---- Player::seek_relative (command thread) ----
\* SDL_GetQueuedAudioSize / SDL_QueueAudio act on an opened device only
HasValue == audio_device # "none"

\* line 282: std::clamp(current + delta_seconds, 0, total_seconds_)
SeekTarget(current, delta) == Clamp(current + delta, 0, total_seconds)

\* a seek_relative that clears the queued audio before it asks the decoder
\* (used to test RejectedSeekChangesNothing)
SeekBeginClearing ==
  /\ At("cmd", "sk_begin")
  /\ audio_mutex = "free"
  /\ IF state = "SWITCH_OFF" \/ ~(audio_device # "none")
     THEN /\ Goto("cmd", "ret")
          /\ UNCHANGED <<audio_mutex, decPos, sk, queued>>
     ELSE /\ queued' = 0
          /\ \E ok \in {b \in BOOLEAN : b => decTrack # 0} :
             IF ok
             THEN /\ sk' = [current |-> elapsed_seconds,
                            target |-> Clamp(elapsed_seconds + arg["cmd"], 0,
                                             total_seconds),
                            delta |-> arg["cmd"], at |-> now,
                            on |-> (state = "PLAY" /\ audio_device = "open"),
                            pcur |-> sk.current, pdelta |-> sk.delta,
                            pat |-> sk.at, pon |-> sk.on]
                  /\ decPos' = Clamp(sk'.target, 0, Duration(decTrack))
                  /\ audio_mutex' = "cmd"
                  /\ Goto("cmd", "sk_reset")
             ELSE /\ Return("cmd", "rejected")
                  /\ UNCHANGED <<audio_mutex, decPos, sk>>
  /\ UNCHANGED <<playerVars, audio_device, devPaused, leaked, decTrack,
                 plVars, now, fade, lastRead, crashed, ncmd, pcD, stopReq>>
  /\ UNCHANGED restVars

\* lines 274-293: lock, early return, target, mpg123_seek; the decoder
\* rejects every seek while no track is open and may reject any other
SeekBegin ==
  /\ At("cmd", "sk_begin")
  /\ audio_mutex = "free"
  /\ IF state = "SWITCH_OFF" \/ ~HasValue
     THEN /\ Goto("cmd", "ret")
          /\ UNCHANGED <<audio_mutex, decPos, sk>>
     ELSE \E ok \in {b \in BOOLEAN : b => decTrack # 0} :
          IF ok
          THEN /\ sk' = [current |-> elapsed_seconds,
                         target |-> SeekTarget(elapsed_seconds, arg["cmd"]),
                         delta |-> arg["cmd"], at |-> now,
                         on |-> (state = "PLAY" /\ audio_device = "open"),
                         pcur |-> sk.current, pdelta |-> sk.delta,
                         pat |-> sk.at, pon |-> sk.on]
               /\ decPos' = Clamp(sk'.target, 0, Duration(decTrack))
               /\ audio_mutex' = "cmd"
               /\ Goto("cmd", "sk_reset")
          ELSE /\ Return("cmd", "rejected")
               /\ UNCHANGED <<audio_mutex, decPos, sk>>
  /\ UNCHANGED <<playerVars, devVars, decTrack, plVars, now, fade, lastRead,
                 crashed, ncmd, pcD, stopReq>>
  /\ UNCHANGED restVars

\* lines 296-300: SDL_ClearQueuedAudio, elapsed_duration_, start_time_
SeekReset ==
  /\ At("cmd", "sk_reset")
  /\ queued' = IF HasValue THEN 0 ELSE queued
  /\ elapsed_duration' = sk.target
  /\ start_time' = now
  /\ Goto("cmd", "r_begin")
  /\ UNCHANGED <<state, volume, last_volume, elapsed_seconds, total_seconds,
                 audio_device, devPaused, leaked, audio_mutex, decVars, plVars,
                 now, fade, lastRead, sk, crashed, ncmd, pcD, stopReq>>
  /\ UNCHANGED restVars

\* line 302: resume() has returned, the lock_guard releases the mutex
SeekUnlock ==
  /\ At("cmd", "sk_unlock")
  /\ audio_mutex' = "free"
  /\ Goto("cmd", "ret")
  /\ UNCHANGED sk
  /\ UNCHANGED <<playerVars, devVars, decVars, plVars, now, fade, lastRead,
                 crashed, ncmd, pcD, stopReq>>
  /\ UNCHANGED restVars

\* ---- CLI::handle_key(' '): is_playing() ? pause() : resume() ----
ToggleRead ==
  /\ At("cmd", "t_read")
  /\ pc' = [pc EXCEPT !["cmd"] = IF state = "PLAY" THEN "p_begin" ELSE "r_begin"]
  /\ arg' = [arg EXCEPT !["cmd"] = IF state = "PLAY" THEN 1 ELSE 0]
  /\ UNCHANGED <<playerVars, devVars, audio_mutex, decVars, plVars, now, op,
                 fade, lastRead, sk, crashed, ncmd, pcD, stopReq>>
  /\ UNCHANGED <<ret, eotIdx>>
  /\ UNCHANGED restVars

\* ---- Player::set_playlist: playlist_ = std::move(playlist), load_current ----
SetPlaylist ==
  /\ At("cmd", "sp_set")
  /\ playlist' = TRUE
  /\ pc' = [pc EXCEPT !["cmd"] = "l_stop"]
  /\ arg' = [arg EXCEPT !["cmd"] = CurrentSong(index)]
  /\ UNCHANGED <<playerVars, devVars, audio_mutex, decVars, index, now, op,
                 fade, lastRead, sk, crashed, ncmd, pcD, stopReq>>
  /\ UNCHANGED <<ret, eotIdx>>
  /\ UNCHANGED restVars

\* ---- the command thread calls a method of Player ----
Entry(o) ==
  CASE o = "pause"        -> "p_begin"
    [] o = "resume"       -> "r_begin"
    [] o = "seek"         -> "sk_begin"
    [] o = "load"         -> "l_stop"
    [] o \in {"next", "prev"} -> "n_chk"
    [] o = "toggle"       -> "t_read"
    [] o = "set_playlist" -> "sp_set"
    [] o = "set_volume"   -> "sv_store"
    [] o = "adjust_volume" -> "av_read"
    [] o = "fade_to"      -> "f_launch"
    [] o = "wait"         -> "f_wait"

CanIssue == ~crashed /\ pc["cmd"] = "idle" /\ pcD = "idle" /\ ncmd < budget

Issue(o, a) ==
  /\ CanIssue
  /\ pc' = [pc EXCEPT !["cmd"] = Entry(o)]
  /\ op' = [op EXCEPT !["cmd"] = o]
  /\ arg' = [arg EXCEPT !["cmd"] = a]
  /\ ncmd' = ncmd + 1
  /\ sk' = IF o = "seek" THEN sk ELSE NoSeek
  /\ UNCHANGED <<playerVars, devVars, audio_mutex, decVars, plVars, now, fade,
                 lastRead, crashed, pcD, stopReq, ret, eotIdx>>

Call(o, a) == Issue(o, a) /\ UNCHANGED restVars

\* arguments of the commands
Deltas  == {-1, 1}            \* seek_relative
Volumes == {-5, 5, 20}        \* set_volume (-0.5, 0.5, 2.0)
VolumeDeltas == {-1, 1}       \* adjust_volume (CLI: VOLUME_DELTA = 0.1F)

CallPause  == Call("pause", 0)
CallResume == Call("resume", 0)
CallToggle == Call("toggle", 0)
CallNext   == Call("next", 0)
CallPrev   == Call("prev", 0)
CallSeek   == \E d \in Deltas : Call("seek", d)
CallLoad   == \E s \in Songs : Call("load", s)
CallLoadLong == Call("load", LongSong)
CallSetPlaylist == ~playlist /\ Call("set_playlist", 0)

CallSetVolume    == \E v \in Volumes : Call("set_volume", v)
CallAdjustVolume == \E d \in VolumeDeltas : Call("adjust_volume", d)
\* fade_to(target, duration) called directly: the caller keeps the future
CallFadeTo == fade["usr"].st = "none" /\ \E v \in Volumes : Call("fade_to", v)
\* future.wait() on the future of the last fade_to
CallWait   == fade["usr"].st # "none" /\ Call("wait", 0)

\* Player::set_volume(vol): volume_.store(std::clamp(vol, MUTE, FULL))
SetVolumeStore ==
  /\ At("cmd", "sv_store")
  /\ volume' = set_volume(arg["cmd"])
  /\ Return("cmd", "ok")
  /\ UNCHANGED <<state, last_volume, elapsed_seconds, elapsed_duration,
                 start_time, total_seconds, devVars, audio_mutex, decVars,
                 plVars, now, fade, lastRead, sk, crashed, ncmd, pcD, stopReq>>
  /\ UNCHANGED restVars

\* Player::adjust_volume(delta): the argument get_volume() + delta is
\* evaluated first (an atomic load) ...
AdjustRead ==
  /\ At("cmd", "av_read")
  /\ caller' = [caller EXCEPT !.got = volume]
  /\ Goto("cmd", "av_store")
  /\ UNCHANGED <<playerVars, devVars, audio_mutex, decVars, plVars, now, fade,
                 lastRead, sk, crashed, ncmd, pcD, stopReq>>
  /\ UNCHANGED <<budget, metaVars, shuffle_order, pl, cli>>

\* ... then set_volume stores the clamped sum
AdjustStore ==
  /\ At("cmd", "av_store")
  /\ volume' = set_volume(caller.got + arg["cmd"])
  /\ caller' = [caller EXCEPT !.got = 0]
  /\ Return("cmd", "ok")
  /\ UNCHANGED <<state, last_volume, elapsed_seconds, elapsed_duration,
                 start_time, total_seconds, devVars, audio_mutex, decVars,
                 plVars, now, fade, lastRead, sk, crashed, ncmd, pcD, stopReq>>
  /\ UNCHANGED <<budget, metaVars, shuffle_order, pl, cli>>

\* Player::fade_to: std::async(std::launch::async, ...) and return the future
FadeToLaunch ==
  /\ At("cmd", "f_launch")
  /\ Launch("usr", arg["cmd"])
  /\ caller' = [caller EXCEPT !.target = arg["cmd"]]
  /\ Return("cmd", "ok")
  /\ UNCHANGED <<playerVars, devVars, audio_mutex, decVars, plVars, now,
                 lastRead, sk, crashed, ncmd, pcD, stopReq>>
  /\ UNCHANGED <<budget, metaVars, shuffle_order, pl, cli>>

\* std::future::wait returns once the task has finished
FadeWait ==
  /\ At("cmd", "f_wait")
  /\ fade["usr"].st = "done"
  /\ fade' = [fade EXCEPT !["usr"] = NoFade]
  /\ caller' = [caller EXCEPT !.target = 0]
  /\ Return("cmd", "ok")
  /\ UNCHANGED <<playerVars, devVars, audio_mutex, decVars, plVars, now,
                 lastRead, sk, crashed, ncmd, pcD, stopReq>>
  /\ UNCHANGED <<budget, metaVars, shuffle_order, pl, cli>>

Volume == SetVolumeStore \/ AdjustRead \/ AdjustStore
FadeTo == FadeToLaunch \/ FadeWait

\* ---- CLI (cli.cpp) ----
\* Player methods called by the CLI run in the command slot "cmd": those of
\* handle_key on input_thread_, and the pause() of shutdown() on the thread
\* in start() / ~CLI, which is modelled as entering pause() only while
\* input_thread_ is not inside a key handler.

\* CLI::start, lines 45-50: the handler is installed, input_thread_ starts
\* (main.cpp: after set_playlist)
CliStart ==
  /\ ~crashed /\ pcD = "idle"
  /\ cli.main = "off" /\ playlist /\ pc["cmd"] = "idle"
  /\ cli' = [cli EXCEPT !.main = "loop", !.inp = "check"]
  /\ UNCHANGED <<playerVars, devVars, audio_mutex, decVars, plVars, now, ctlVars,
                 budget, metaVars, shuffle_order, caller, pl>>

\* CLI::input_loop, line 74: the loop condition, then getchar()
InputCheck ==
  /\ ~crashed /\ cli.inp = "check" /\ pc["cmd"] = "idle"
  /\ cli' = [cli EXCEPT !.inp = IF cli.running /\ ~cli.sigint THEN "getchar" ELSE "exit"]
  /\ UNCHANGED <<playerVars, devVars, audio_mutex, decVars, plVars, now, ctlVars,
                 budget, metaVars, shuffle_order, caller, pl>>

\* getchar() returns a key and handle_key calls the Player
Key(o, a) ==
  /\ cli.inp = "getchar"
  /\ Issue(o, a)
  /\ cli' = [cli EXCEPT !.inp = "check"]
  /\ UNCHANGED <<budget, metaVars, shuffle_order, caller, pl>>

\* handle_key(' ')
KeySpace == Key("toggle", 0)

\* handle_key('q'), line 129: sigint_received_ = true
KeyQuit ==
  /\ ~crashed /\ cli.inp = "getchar" /\ pc["cmd"] = "idle"
  /\ cli' = [cli EXCEPT !.sigint = TRUE, !.inp = "check"]
  /\ UNCHANGED <<playerVars, devVars, audio_mutex, decVars, plVars, now, ctlVars,
                 budget, metaVars, shuffle_order, caller, pl>>

\* CLI::handle_sigint: an external SIGINT, at any moment after start()
SigInt ==
  /\ ~crashed /\ cli.main # "off" /\ ~cli.sigint
  /\ cli' = [cli EXCEPT !.sigint = TRUE]
  /\ UNCHANGED <<playerVars, devVars, audio_mutex, decVars, plVars, now, ctlVars,
                 budget, metaVars, shuffle_order, caller, pl>>

\* CLI::start, lines 52-55: the outer loop ends once a flag is down
MainLoop ==
  /\ ~crashed /\ cli.main = "loop"
  /\ ~(cli.running /\ ~cli.sigint)
  /\ cli' = [cli EXCEPT !.main = "sd1"]
  /\ UNCHANGED <<playerVars, devVars, audio_mutex, decVars, plVars, now, ctlVars,
                 budget, metaVars, shuffle_order, caller, pl>>

\* CLI::shutdown, lines 60-66, called by start() (sd1) and by ~CLI (sd2)
Shutdown ==
  /\ ~crashed /\ cli.main \in {"sd1", "sd2"}
  /\ IF ~cli.running
     THEN /\ cli' = [cli EXCEPT !.main = IF cli.main = "sd1" THEN "sd2" ELSE "done"]
          /\ UNCHANGED <<pc, op>>
     ELSE /\ pc["cmd"] = "idle"
          /\ cli' = [cli EXCEPT !.running = FALSE,
                                !.main = IF cli.main = "sd1" THEN "pause1" ELSE "pause2"]
          /\ pc' = [pc EXCEPT !["cmd"] = "p_begin"]
          /\ op' = [op EXCEPT !["cmd"] = "shutdown"]
  /\ UNCHANGED <<playerVars, devVars, audio_mutex, decVars, plVars, now, arg,
                 fade, lastRead, sk, crashed, ncmd, pcD, stopReq, ret, eotIdx,
                 budget, metaVars, shuffle_order, caller, pl>>

\* player_.pause() has returned to shutdown(), which returns
ShutdownReturn ==
  /\ ~crashed /\ cli.main \in {"pause1", "pause2"}
  /\ op["cmd"] # "shutdown"
  /\ cli' = [cli EXCEPT !.main = IF cli.main = "pause1" THEN "sd2" ELSE "done"]
  /\ UNCHANGED <<playerVars, devVars, audio_mutex, decVars, plVars, now, ctlVars,
                 budget, metaVars, shuffle_order, caller, pl>>

Cli == CliStart \/ InputCheck \/ KeySpace \/ KeyQuit \/ SigInt \/ MainLoop
       \/ Shutdown \/ ShutdownReturn

\* ---- Player::player_thread (the streaming loop) ----
\* SDL_GetQueuedAudioSize(audio_device_.value()); 0 for the invalid id 0
QueuedSize == IF audio_device = "open" THEN queued ELSE 0

\* mpg123_read: MPG123_OK with a frame, MPG123_DONE at the end of the
\* track, an error with no open track or (any time) on a damaged frame
ReadResults ==
  IF decTrack # 0 /\ decPos < Duration(decTrack) THEN {"OK", "ERR"}
  ELSE IF decTrack # 0 THEN {"DONE"} ELSE {"ERR"}

\* lines 172-177: the while condition, the sleep, the test of state_
StrLoop ==
  /\ At("str", "loop")
  /\ pc' = [pc EXCEPT !["str"] =
              IF stopReq \/ state = "SWITCH_OFF" THEN "exit"
              ELSE IF state # "PLAY" THEN "loop" ELSE "s_dev"]
  /\ lastRead' = "none"
  /\ UNCHANGED <<playerVars, devVars, audio_mutex, decVars, plVars, now, op,
                 arg, fade, sk, crashed, ncmd, pcD, stopReq>>
  /\ UNCHANGED <<ret, eotIdx>>
  /\ UNCHANGED restVars

\* line 179: resume_audio_device(), without the mutex
StrResumeDev ==
  /\ At("str", "s_dev")
  /\ devPaused' = PausedAfter(FALSE)
  /\ pc' = [pc EXCEPT !["str"] = "sa_chk"]
  /\ UNCHANGED <<playerVars, audio_device, queued, leaked, audio_mutex,
                 decVars, plVars, now, op, arg, fade, lastRead, sk, crashed,
                 ncmd, pcD, stopReq>>
  /\ UNCHANGED <<ret, eotIdx>>
  /\ UNCHANGED restVars

\* lines 204-206: state_ == PLAY && mpg123_read(...) == MPG123_OK
StrRead ==
  /\ At("str", "sa_chk")
  /\ IF state # "PLAY"
     THEN /\ pc' = [pc EXCEPT !["str"] = "dr_chk"]
          /\ UNCHANGED <<decPos, lastRead>>
     ELSE \E r \in ReadResults :
          /\ lastRead' = r
          /\ decPos' = IF r = "OK" THEN decPos + 1 ELSE decPos
          /\ pc' = [pc EXCEPT !["str"] = IF r = "OK" THEN "sa_upd" ELSE "dr_chk"]
  /\ UNCHANGED <<playerVars, devVars, audio_mutex, decTrack, plVars, now, op,
                 arg, fade, sk, crashed, ncmd, pcD, stopReq>>
  /\ UNCHANGED <<ret, eotIdx>>
  /\ UNCHANGED restVars

\* Player::update_elapsed_time, lines 250-256
ElapsedNow == elapsed_duration + (now - start_time)

StrUpdate ==
  /\ At("str", "sa_upd")
  /\ elapsed_seconds' = ElapsedNow
  /\ pc' = [pc EXCEPT !["str"] = "ws_chk"]
  /\ UNCHANGED <<state, volume, last_volume, elapsed_duration, start_time,
                 total_seconds, devVars, audio_mutex, decVars, plVars, now, op,
                 arg, fade, lastRead, sk, crashed, ncmd, pcD, stopReq>>
  /\ UNCHANGED <<ret, eotIdx>>
  /\ UNCHANGED restVars

\* Player::wait_until_buffer_has_space, lines 218-234: leaves the loop when
\* state_ is not PLAY or the backlog is within the bound, else polls again
BufferReady == HasValue /\ QueuedSize <= BUFFER_MULTIPLIER

StrWaitSpace ==
  /\ At("str", "ws_chk")
  /\ IF state # "PLAY"
     THEN pc' = [pc EXCEPT !["str"] = "sa_queue"]
     ELSE /\ audio_mutex = "free"
          /\ pc' = [pc EXCEPT !["str"] = IF BufferReady THEN "sa_queue" ELSE "ws_chk"]
  /\ UNCHANGED <<playerVars, devVars, audio_mutex, decVars, plVars, now, op,
                 arg, fade, lastRead, sk, crashed, ncmd, pcD, stopReq>>
  /\ UNCHANGED <<ret, eotIdx>>
  /\ UNCHANGED restVars

\* lines 209-214: apply_volume, then SDL_QueueAudio under the mutex
StrQueue ==
  /\ At("str", "sa_queue")
  /\ audio_mutex = "free"
  /\ queued' = IF audio_device = "open" THEN queued + 1 ELSE queued
  /\ pc' = [pc EXCEPT !["str"] = "sa_chk"]
  /\ UNCHANGED <<playerVars, audio_device, devPaused, leaked, audio_mutex,
                 decVars, plVars, now, op, arg, fade, lastRead, sk, crashed,
                 ncmd, pcD, stopReq>>
  /\ UNCHANGED <<ret, eotIdx>>
  /\ UNCHANGED restVars

\* Player::wait_for_buffer_to_drain, lines 236-246: while PLAY, lock; leave
\* when there is no device or nothing queued, else SDL_Delay with the lock
StrDrainChk ==
  /\ At("str", "dr_chk")
  /\ IF state # "PLAY"
     THEN /\ pc' = [pc EXCEPT !["str"] = "eot_chk"]
          /\ UNCHANGED audio_mutex
     ELSE /\ audio_mutex = "free"
          /\ IF ~HasValue \/ QueuedSize <= 0
             THEN /\ pc' = [pc EXCEPT !["str"] = "eot_chk"]
                  /\ UNCHANGED audio_mutex
             ELSE /\ pc' = [pc EXCEPT !["str"] = "dr_delay"]
                  /\ audio_mutex' = "str"
  /\ UNCHANGED <<playerVars, devVars, decVars, plVars, now, op, arg, fade,
                 lastRead, sk, crashed, ncmd, pcD, stopReq>>
  /\ UNCHANGED <<ret, eotIdx>>
  /\ UNCHANGED restVars

\* a drain-wait that keeps the mutex over its polls (used to test
\* CommandsReturn)
StrDrainDelayKeepsLock ==
  /\ At("str", "dr_delay")
  /\ pc' = [pc EXCEPT !["str"] = "dr_chk"]
  /\ UNCHANGED <<playerVars, devVars, audio_mutex, decVars, plVars, now, op,
                 arg, fade, lastRead, sk, crashed, ncmd, pcD, stopReq>>
  /\ UNCHANGED <<ret, eotIdx>>
  /\ UNCHANGED restVars

\* line 247: the SDL_Delay is over, the lock_guard releases the mutex
StrDrainDelay ==
  /\ At("str", "dr_delay")
  /\ audio_mutex' = "free"
  /\ pc' = [pc EXCEPT !["str"] = "dr_chk"]
  /\ UNCHANGED <<playerVars, devVars, decVars, plVars, now, op, arg, fade,
                 lastRead, sk, crashed, ncmd, pcD, stopReq>>
  /\ UNCHANGED <<ret, eotIdx>>
  /\ UNCHANGED restVars

\* line 184: if (state_.load() == State::PLAY)
StrEotChk ==
  /\ At("str", "eot_chk")
  /\ pc' = [pc EXCEPT !["str"] = IF state = "PLAY" THEN "eot_close" ELSE "loop"]
  /\ UNCHANGED <<playerVars, devVars, audio_mutex, decVars, plVars, now, op,
                 arg, fade, lastRead, sk, crashed, ncmd, pcD, stopReq>>
  /\ UNCHANGED <<ret, eotIdx>>
  /\ UNCHANGED restVars

\* lines 185-188: mpg123_close, then next_song() if a playlist is attached
StrEotClose ==
  /\ At("str", "eot_close")
  /\ decTrack' = 0
  /\ decPos' = 0
  /\ pc' = [pc EXCEPT !["str"] = IF playlist THEN "n_chk" ELSE "eot_stop"]
  /\ op' = [op EXCEPT !["str"] = IF playlist THEN "auto" ELSE "none"]
  /\ UNCHANGED <<playerVars, devVars, audio_mutex, plVars, now, arg, fade,
                 lastRead, sk, crashed, ncmd, pcD, stopReq>>
  /\ eotIdx' = IF playlist THEN index ELSE -1
  /\ UNCHANGED ret
  /\ UNCHANGED restVars

\* an end-of-track without the store of STOPPED (used to test
\* EndOfTrackStops)
StrEotStopNoStore ==
  /\ At("str", "eot_stop")
  /\ pc' = [pc EXCEPT !["str"] = "loop"]
  /\ UNCHANGED <<playerVars, devVars, audio_mutex, decVars, plVars, now, op,
                 arg, fade, lastRead, sk, crashed, ncmd, pcD, stopReq>>
  /\ UNCHANGED <<ret, eotIdx>>
  /\ UNCHANGED restVars

\* line 189: state_.store(State::STOPPED)
StrEotStop ==
  /\ At("str", "eot_stop")
  /\ state' = "STOPPED"
  /\ pc' = [pc EXCEPT !["str"] = "loop"]
  /\ UNCHANGED <<volume, last_volume, elapsed_seconds, elapsed_duration,
                 start_time, total_seconds, devVars, audio_mutex, decVars,
                 plVars, now, op, arg, fade, lastRead, sk, crashed, ncmd, pcD,
                 stopReq>>
  /\ UNCHANGED <<ret, eotIdx>>
  /\ UNCHANGED restVars

\* ---- environment: the output device plays, the clock advances ----
Drain ==
  /\ ~crashed
  /\ audio_device = "open" /\ ~devPaused /\ queued > 0
  /\ queued' = queued - 1
  /\ UNCHANGED <<playerVars, audio_device, devPaused, leaked, audio_mutex,
                 decVars, plVars, now, ctlVars>>
  /\ UNCHANGED restVars

Tick ==
  /\ ~crashed
  /\ now < MaxTime
  /\ now' = now + 1
  /\ UNCHANGED <<playerVars, devVars, audio_mutex, decVars, plVars, ctlVars>>
  /\ UNCHANGED restVars

\* ---- Player::~Player, run by the owner once its last command returned ----
\* line 40: state_.store(State::SWITCH_OFF)
DtorBegin ==
  /\ ~crashed /\ pcD = "idle" /\ pc["cmd"] = "idle"
  /\ state' = "SWITCH_OFF"
  /\ pcD' = "close"
  /\ UNCHANGED <<volume, last_volume, elapsed_seconds, elapsed_duration,
                 start_time, total_seconds, devVars, audio_mutex, decVars,
                 plVars, now, pc, op, arg, fade, lastRead, sk, crashed, ncmd,
                 stopReq>>
  /\ UNCHANGED <<ret, eotIdx>>
  /\ UNCHANGED restVars

\* lines 43-49: under the mutex, close and reset audio_device_
DtorClose ==
  /\ ~crashed /\ pcD = "close"
  /\ audio_mutex = "free"
  /\ audio_device' = "none"
  /\ queued' = 0
  /\ devPaused' = TRUE
  /\ pcD' = "dec"
  /\ UNCHANGED <<playerVars, leaked, audio_mutex, decVars, plVars, now, pc,
                 op, arg, fade, lastRead, sk, crashed, ncmd, stopReq>>
  /\ UNCHANGED <<ret, eotIdx>>
  /\ UNCHANGED restVars

\* lines 50-53: mpg123_close, mpg123_delete; then player_thread_ is
\* destroyed: request_stop()
DtorDec ==
  /\ ~crashed /\ pcD = "dec"
  /\ decTrack' = 0
  /\ decPos' = 0
  /\ stopReq' = TRUE
  /\ pcD' = "join"
  /\ UNCHANGED <<playerVars, devVars, audio_mutex, plVars, now, pc, op, arg,
                 fade, lastRead, sk, crashed, ncmd>>
  /\ UNCHANGED <<ret, eotIdx>>
  /\ UNCHANGED restVars

\* std::jthread::join
DtorJoin ==
  /\ ~crashed /\ pcD = "join"
  /\ pc["str"] = "exit"
  /\ pcD' = "done"
  /\ UNCHANGED <<playerVars, devVars, audio_mutex, decVars, plVars, now, pc,
                 op, arg, fade, lastRead, sk, crashed, ncmd, stopReq>>
  /\ UNCHANGED <<ret, eotIdx>>
  /\ UNCHANGED restVars

\* ---- specifications ----
Fade == \E t \in FadeOwners : FadeStart(t) \/ FadeStep(t) \/ FadeFinal(t)
Pause == \E t \in Threads : PauseBegin(t) \/ PauseSnap(t) \/ PauseDev(t) \/ PauseStore(t)
Resume == \E t \in Threads : ResumeBegin(t) \/ ResumeFade(t) \/ ResumeStore(t)
Load == \E t \in Threads :
          LoadStop(t) \/ LoadPauseDev(t) \/ LoadOpen(t) \/ LoadReset(t) \/ LoadDev(t)
NextSong == \E t \in Threads : NextChk(t) \/ NextAdv(t)
Seek == SeekBegin \/ SeekReset \/ SeekUnlock
StrNext == StrLoop \/ StrResumeDev \/ StrRead \/ StrUpdate \/ StrWaitSpace
           \/ StrQueue \/ StrDrainChk \/ StrDrainDelay \/ StrEotChk
           \/ StrEotClose \/ StrEotStop
Dtor == DtorBegin \/ DtorClose \/ DtorDec \/ DtorJoin

Next ==
  \/ CallPause \/ CallResume \/ CallToggle \/ CallNext \/ CallPrev
  \/ CallSeek \/ CallLoad \/ CallSetPlaylist \/ CallSetVolume \/ CallAdjustVolume
  \/ CallFadeTo \/ CallWait
  \/ ToggleRead \/ SetPlaylist \/ Volume \/ FadeTo
  \/ Fade \/ Pause \/ Resume \/ Load \/ NextSong \/ Seek
  \/ StrNext \/ Drain \/ Tick \/ Dtor \/ Cli

Spec == Init /\ [][Next]_vars

\* The specifications below are Spec with the command thread restricted to
\* some of the commands (and, where time plays no role, a stopped clock).

\* no Track Source: load, resume, pause, the space key, destruction
NextCtl ==
  \/ CallLoad \/ CallResume \/ CallPause \/ CallToggle \/ ToggleRead
  \/ Fade \/ Pause \/ Resume \/ Load \/ StrNext \/ Drain \/ Dtor

SpecCtl == Init /\ [][NextCtl]_vars

\* the same under fair scheduling of the streaming thread and of the device
SpecCtlFair == SpecCtl /\ WF_vars(StrNext) /\ WF_vars(Drain)

\* no Track Source: load, resume, pause, seek, with the clock
NextTime ==
  \/ CallLoad \/ CallResume \/ CallPause \/ CallSeek
  \/ Fade \/ Pause \/ Resume \/ Load \/ Seek \/ StrNext \/ Drain \/ Tick

SpecTime == Init /\ [][NextTime]_vars

\* no Track Source: load, resume, seek, with the clock
NextSeek ==
  \/ CallLoad \/ CallResume \/ CallSeek
  \/ Fade \/ Resume \/ Load \/ Seek \/ StrNext \/ Drain \/ Tick

SpecSeek == InitWith(SeekCmds) /\ [][NextSeek]_vars

\* a Track Source is attached: set_playlist, resume
NextPl ==
  \/ CallSetPlaylist \/ SetPlaylist \/ CallResume
  \/ Fade \/ Pause \/ Resume \/ Load \/ NextSong \/ StrNext \/ Drain

SpecPl == Init /\ [][NextPl]_vars

\* a Track Source whose first file is good is attached (the load of
\* set_playlist succeeds), then next_song, then next_song or prev_song
LoadNav == Load /\ (op["cmd"] = "set_playlist" => ret'.res # "error")

\* player_thread while a playlist is attached whenever state is PLAY
StrNextPl == StrLoop \/ StrResumeDev \/ StrRead \/ StrUpdate \/ StrWaitSpace
             \/ StrQueue \/ StrDrainChk \/ StrDrainDelay \/ StrEotChk
             \/ StrEotClose

NextNav ==
  \/ CallSetPlaylist \/ SetPlaylist
  \/ (playlist /\ CallNext) \/ (ret.op = "next" /\ CallPrev)
  \/ Fade \/ Pause \/ Resume \/ LoadNav \/ NextSong \/ StrNextPl \/ Drain

SpecNav == InitWith(NavCmds) /\ [][NextNav]_vars

\* the volume commands, alone and overlapping: no track is loaded, the
\* streaming loop finds nothing to decode
StrNextIdle == StrLoop \/ StrResumeDev \/ StrRead \/ StrDrainChk \/ StrEotChk
               \/ StrEotClose \/ StrEotStop
NextVol ==
  \/ CallSetVolume \/ CallAdjustVolume \/ CallFadeTo \/ CallWait
  \/ CallPause \/ CallResume
  \/ Volume \/ FadeTo \/ Fade \/ Pause \/ Resume \/ StrNextIdle
SpecVol == InitWith(VolCmds) /\ [][NextVol]_vars
\* std::launch::async: each fade_to task runs on a thread of its own
SpecVolFair == SpecVol /\ WF_vars(Fade)

\* the Playlist alone, built from a folder of 1 .. MaxSongs tracks
InitPlaylist == \E size \in 1..MaxSongs : InitOf(0, size)
NextPlaylist ==
  \/ Playlist_next \/ Playlist_prev \/ Playlist_has_next \/ Playlist_has_prev
  \/ Playlist_reshuffle
SpecPlaylist == InitPlaylist /\ [][NextPlaylist]_vars

\* the CLI as main.cpp runs it: set_playlist, start(), then the space and q
\* keys and SIGINT
NextQuit ==
  \/ CallSetPlaylist \/ SetPlaylist \/ Cli \/ ToggleRead
  \/ Fade \/ Pause \/ Resume \/ LoadNav \/ NextSong \/ StrNextPl \/ Drain
SpecQuit == InitWith(QuitCmds) /\ [][NextQuit]_vars

\* a track longer than the allowed backlog: load, resume, pause, and a device
\* that drains at any rate
NextQueue ==
  \/ CallLoadLong \/ CallResume \/ CallPause
  \/ Fade \/ Pause \/ Resume \/ Load \/ StrNext \/ Drain
SpecQueue == InitWith(QueueCmds) /\ [][NextQueue]_vars

\* a Track Source is attached, the player plays through the list, and the
\* owner destroys the Player; every thread is scheduled fairly, a thread
\* waiting for the mutex gets it if it is free again and again
NextOff ==
  \/ CallSetPlaylist \/ SetPlaylist \/ CallResume
  \/ Fade \/ Pause \/ Resume \/ Load \/ NextSong \/ StrNext \/ Drain \/ Dtor
FairOff ==
  /\ SF_vars(StrNext) /\ SF_vars(Load) /\ SF_vars(Dtor)
  /\ WF_vars(Pause) /\ WF_vars(Resume) /\ WF_vars(NextSong)
  /\ WF_vars(SetPlaylist) /\ WF_vars(Fade) /\ WF_vars(Drain)
SpecOff == InitWith(OffCmds) /\ [][NextOff]_vars /\ FairOff

\* the steps of the command thread, and those of player_thread
CmdStep ==
  \/ PauseBegin("cmd") \/ PauseSnap("cmd") \/ PauseDev("cmd") \/ PauseStore("cmd")
  \/ ResumeBegin("cmd") \/ ResumeFade("cmd") \/ ResumeStore("cmd")
  \/ LoadStop("cmd") \/ LoadPauseDev("cmd") \/ LoadOpen("cmd") \/ LoadReset("cmd")
  \/ LoadDev("cmd") \/ NextChk("cmd") \/ NextAdv("cmd")
  \/ SetPlaylist \/ Seek \/ Volume
StrStep ==
  \/ StrNext
  \/ PauseBegin("str") \/ PauseSnap("str") \/ PauseDev("str") \/ PauseStore("str")
  \/ ResumeBegin("str") \/ ResumeFade("str") \/ ResumeStore("str")
  \/ LoadStop("str") \/ LoadPauseDev("str") \/ LoadOpen("str") \/ LoadReset("str")
  \/ LoadDev("str") \/ NextChk("str") \/ NextAdv("str")

\* the commands of the claim while player_thread runs: on a player that
\* has loaded a track (load_song, then any two of them), and next_song
\* and prev_song on a player with a Track Source; every thread is scheduled
\* fairly, a thread waiting for the mutex gets it if it is free again and
\* again
NextRet ==
  \/ (ncmd = 0 /\ CallSetPlaylist)
  \/ (playlist /\ ncmd = 1 /\ CallNext) \/ (playlist /\ ncmd = 1 /\ CallPrev)
  \/ (ncmd = 0 /\ CallLoad)
  \/ (~playlist /\ ncmd > 0 /\ CallPause) \/ (~playlist /\ ncmd > 0 /\ CallResume)
  \/ (~playlist /\ ncmd > 0 /\ CallSeek) \/ (~playlist /\ ncmd > 0 /\ CallLoad)
  \/ (~playlist /\ ncmd > 0 /\ CallNext) \/ (~playlist /\ ncmd > 0 /\ CallPrev)
  \/ (~playlist /\ ncmd > 0 /\ CallSetVolume) \/ (~playlist /\ ncmd > 0 /\ CallAdjustVolume)
  \/ CmdStep \/ StrStep \/ Fade \/ Drain
FairRet ==
  /\ SF_vars(CmdStep) /\ SF_vars(StrStep) /\ WF_vars(Drain)
  /\ \A t \in Threads : WF_vars(FadeStart(t) \/ FadeStep(t) \/ FadeFinal(t))
SpecRet == InitWith(RetCmds) /\ [][NextRet]_vars /\ FairRet

\* ---- properties ----


\* C1 (under SpecPl): once player_thread has closed the decoder at the end of
\* a track with a playlist attached, it is not terminated, and when its
\* next_song() returns the cursor has advanced by exactly one position
\* (wrapping), that track is the open one and the state is PLAY.
AutoNextAdvancesOnce ==
  [][(op["str"] = "auto" /\ lastRead = "DONE") =>
       /\ ~crashed'
       /\ op'["str"] = "none" =>
            /\ index' = PlaylistNext(eotIdx)
            /\ decTrack' = CurrentSong(index')
            /\ state' = "PLAY"]_vars

\* C2 (under SpecCtlFair): with no playlist, a track that is exhausted while
\* PLAY leads to STOPPED unless a command is issued or the player destroyed;
\* STOPPED then stays until a command is issued or the player destroyed;
\* player_thread is never terminated by an exception and never reopens or
\* rewinds the decoder.
Exhausted ==
  /\ ~playlist /\ state = "PLAY" /\ lastRead = "DONE"
  /\ pc["cmd"] = "idle" /\ pcD = "idle"

EndOfTrackStops ==
  /\ [](~playlist => ~crashed)
  /\ [][(state = "STOPPED" /\ pc["cmd"] = "idle" /\ pcD = "idle")
          => (state' = "STOPPED" \/ pcD' # "idle")]_vars
  /\ [][StrNext => (decTrack' \in {decTrack, 0} /\ (decTrack' # 0 => decPos' >= decPos))]_vars
  /\ \A n \in 0..MaxCmds :
       (Exhausted /\ ncmd = n) ~> (state = "STOPPED" \/ ncmd # n \/ pcD # "idle")

EndOfTrackStopped ==
  /\ ~playlist /\ state = "STOPPED" /\ lastRead = "DONE" /\ decTrack = 0
  /\ pc["str"] = "loop" /\ pc["cmd"] = "idle" /\ pcD = "idle"
  /\ ret.op = "resume" /\ ret.res = "ok"
  /\ queued = 0 /\ total_seconds > 0

\* C3 (under SpecPl): no exception ever leaves player_thread.
NoErrorEscapesLoop == ~crashed

\* C4 (under SpecCtl): once state is SWITCH_OFF no step changes it.
ShuttingDownIsTerminal == [][state = "SWITCH_OFF" => state' = "SWITCH_OFF"]_vars

\* C5 (under SpecTime): get_progress() returns elapsed >= 0 and total >= 0,
\* and elapsed <= total while a track of known duration is open.
ProgressBounds ==
  /\ elapsed_seconds >= 0
  /\ total_seconds >= 0
  /\ (decTrack # 0 /\ total_seconds > 0) => elapsed_seconds <= total_seconds

\* C6 (under SpecCtl): a resume() of the command thread that found the
\* player not shutting down returns with state PLAY exactly when a track is
\* open in the decoder.
ResumePlaysIffLoaded ==
  [][(op["cmd"] = "resume" /\ pc["cmd"] = "r_store" /\ pc'["cmd"] = "idle")
       => (state' = "PLAY" <=> decTrack' # 0)]_vars

\* C7 (under SpecCtl): every pause() returns without error with state PAUSE,
\* whatever the state before (PAUSE included); the space key returns with
\* state PLAY exactly when is_playing() was false.
PauseReturnsPaused ==
  [][(pc["cmd"] # "idle" /\ pc'["cmd"] = "idle") =>
       /\ op["cmd"] = "pause" => (state' = "PAUSE" /\ ret'.res = "ok")
       /\ op["cmd"] = "toggle" =>
            (ret'.res = "ok" /\ (state' = "PLAY" <=> arg["cmd"] = 0))]_vars

SecondPauseStores ==
  /\ pc["cmd"] = "p_store" /\ op["cmd"] = "pause"
  /\ ret.op = "pause" /\ ret.res = "ok"
  /\ state = "PAUSE"

\* C8 (under SpecCtl, where no command sets the volume, so that the user's
\* volume is VOLUME_FULL): when a resume() completes the volume is the
\* user's.
ResumeRestoresVolume ==
  [][\A t \in Threads :
       (pc[t] = "r_store" /\ pc'[t] # "r_store") => volume' = VOLUME_FULL]_vars

\* C9 (under SpecTime): after two consecutive accepted seeks of +S and -S on
\* a Playing player with an open device, with no time passing in between
\* and the first one within the track, the position is the one the first
\* seek started from.
SeekRoundTrip ==
  ( /\ pc["cmd"] = "idle" /\ ret.op = "seek" /\ ret.res = "ok"
    /\ sk.on /\ sk.pon
    /\ sk.pdelta > 0 /\ sk.delta = -sk.pdelta
    /\ sk.pcur >= 0 /\ sk.pcur + sk.pdelta <= total_seconds
    /\ sk.at = sk.pat )
  => sk.target = sk.pcur

\* C10 (under SpecSeek): a seek_relative the decoder rejects returns without
\* an exception and leaves state, elapsed_duration, start_time,
\* elapsed_seconds, volume and the queued audio (and the decoder position
\* and the mutex) as they were.
RejectedSeekChangesNothing ==
  [][(pc["cmd"] = "sk_begin" /\ pc'["cmd"] = "idle" /\ ret'.res # "ok") =>
       /\ ret'.res = "rejected"
       /\ UNCHANGED <<state, elapsed_duration, start_time, elapsed_seconds,
                      volume, last_volume, queued, decPos, audio_mutex>>]_vars

SeekRejectedWhilePlaying ==
  /\ pc["cmd"] = "idle" /\ ret.op = "seek" /\ ret.res = "rejected"
  /\ state = "PLAY" /\ decTrack # 0 /\ audio_device = "open" /\ queued > 0

\* C11 (under SpecNav): a next_song() or prev_song() whose load_song throws
\* returns the exception to its caller from inside load_song, without
\* running resume(), and the state is not PLAY when it returns; one whose
\* load succeeds returns after its resume(), with state PLAY.
NavLoadFailurePropagates ==
  [][(op["cmd"] \in {"next", "prev"} /\ pc["cmd"] # "idle" /\ pc'["cmd"] = "idle") =>
       /\ ret'.res \in {"ok", "error"}
       /\ ret'.res = "error" =>
            (pc["cmd"] \in {"l_open", "l_dev"} /\ state' # "PLAY")
       /\ ret'.res = "ok" =>
            (pc["cmd"] = "r_store" /\ state' = "PLAY")]_vars

\* C12 (under SpecCtl): when load_song returns without an exception the
\* state is STOPPED, elapsed_duration_ and elapsed_seconds_ are 0 and the
\* device is paused; and as long as no further command is called the
\* device stays paused and the state is not PLAY.
LoadLeavesPaused ==
  /\ [][(op["cmd"] = "load" /\ pc["cmd"] # "idle" /\ pc'["cmd"] = "idle"
          /\ ret'.res = "ok")
         => (state' = "STOPPED" /\ elapsed_duration' = 0
             /\ elapsed_seconds' = 0 /\ devPaused')]_vars
  /\ []((pc["cmd"] = "idle" /\ ret.op = "load" /\ ret.res = "ok" /\ pcD = "idle")
        => (devPaused /\ state # "PLAY"))

\* C13 (under SpecCtl): when load_song has returned without an exception and
\* the track now open has no embedded tags, title_ and artist_ are empty.
LoadReplacesMetadata ==
  (pc["cmd"] = "idle" /\ ret.op = "load" /\ ret.res = "ok"
   /\ decTrack # 0 /\ ~HasTags(decTrack))
  => (title = "" /\ artist = "")

\* C14 (under SpecVol): in every reachable state, whatever the interleaving
\* of set_volume, adjust_volume, overlapping fade_to tasks, pause and resume,
\* volume_ and last_volume_ lie between VOLUME_MUTE and VOLUME_FULL.
VolumeInRange ==
  /\ volume >= VOLUME_MUTE /\ volume <= VOLUME_FULL
  /\ last_volume >= VOLUME_MUTE /\ last_volume <= VOLUME_FULL

\* two fade_to tasks are in their loops at once, the caller's towards a
\* target outside the range, and a snapshot of an intermediate volume was taken
OverlappingFades ==
  /\ fade["usr"].st = "loop" /\ fade["usr"].i > 0
  /\ fade["usr"].target > VOLUME_FULL
  /\ fade["cmd"].st = "loop" /\ fade["cmd"].i > 0
  /\ last_volume < VOLUME_FULL

\* C15 (under SpecVol): set_volume(v) stores clamp(v, MUTE, FULL) and
\* adjust_volume(d) stores clamp(p + d, MUTE, FULL), p being the volume the
\* call read (the stored volume itself when no fade_to task has been launched
\* and not yet awaited);
\* both return normally for every input, none is rejected.
VolumeWritesClamp ==
  [][/\ (pc["cmd"] = "sv_store" /\ pc'["cmd"] = "idle") =>
          /\ volume' = Clamp(arg["cmd"], VOLUME_MUTE, VOLUME_FULL)
          /\ ret'.res = "ok"
     /\ (pc["cmd"] = "av_store" /\ pc'["cmd"] = "idle") =>
          /\ volume' = Clamp(caller.got + arg["cmd"], VOLUME_MUTE, VOLUME_FULL)
          /\ (\A t \in FadeOwners : fade[t].st = "none")
               => volume' = Clamp(volume + arg["cmd"], VOLUME_MUTE, VOLUME_FULL)
          /\ ret'.res = "ok"
     /\ (pc["cmd"] \in {"sv_store", "av_read", "av_store"} /\ ~crashed)
          => ENABLED (SetVolumeStore \/ AdjustRead \/ AdjustStore)]_vars

\* three volume commands have returned, the last an adjust_volume that left
\* the volume at VOLUME_MUTE (reached only through set_volume(-0.5))
OutOfRangeAccepted ==
  /\ ret.op = "adjust_volume" /\ ret.res = "ok" /\ pc["cmd"] = "idle"
  /\ volume = VOLUME_MUTE /\ ncmd = VolCmds /\ state = "STOPPED"
  /\ \A t \in FadeOwners : fade[t].st = "none"

\* C16 (under SpecVolFair): a fade_to(target) that is awaited right away, with
\* no other writer of the volume in between, leaves the volume at
\* clamp(target, MUTE, FULL); a fade_to task finishes after exactly N_STEPS
\* interpolation steps; and every fade_to task that was launched finishes.
FadeReachesTarget ==
  /\ [][(pc["cmd"] = "f_wait" /\ pc'["cmd"] = "idle" /\ ret.op = "fade_to")
          => volume' = Clamp(caller.target, VOLUME_MUTE, VOLUME_FULL)]_vars
  /\ [][\A t \in FadeOwners :
          (fade[t].st = "loop" /\ fade'[t].st = "done") => fade[t].i = N_STEPS]_vars
  /\ \A t \in FadeOwners : (fade[t].st = "start") ~> (fade[t].st = "done")

\* fade_to(0.5) from full volume, then wait: both have returned
FadeAwaited ==
  /\ pc["cmd"] = "idle" /\ ret.op = "wait" /\ ret.res = "ok"
  /\ ncmd = 2 /\ volume = 5 /\ fade["usr"].st = "none"

\* C17 (under SpecNav): with a playlist attached and no load failing, when
\* next_song() or prev_song() returns the state is PLAY and the open track is
\* playlist_->current(); and a prev_song() that follows a next_song() leaves
\* the cursor where it was before the next_song(), on the first track.
NextThenPrevReturns ==
  [][(op["cmd"] \in {"next", "prev"} /\ pc["cmd"] = "r_store" /\ pc'["cmd"] = "idle"
        /\ ~crashed /\ ret.res = "ok") =>
       /\ state' = "PLAY"
       /\ decTrack' = CurrentSong(index')
       /\ (op["cmd"] = "prev" /\ ret.op = "next") => index' = 0]_vars

\* C18 (under SpecPlaylist): the cursor stays within 0 .. size - 1; next()
\* moves from the last position to the first and prev() from the first to
\* the last; prev() after next() and next() after prev() return to the
\* cursor and the track they started from; and so do size consecutive calls
\* of next(), from any starting position.
CursorIsCyclic ==
  /\ index >= 0 /\ index <= Len(shuffle_order) - 1
  /\ pl.op = "next" =>
       /\ pl.before = Len(shuffle_order) - 1 => index = 0
       /\ pl.before < Len(shuffle_order) - 1 => index = pl.before + 1
       /\ pl.track = CurrentSong(index)
  /\ pl.op = "prev" =>
       /\ pl.before = 0 => index = Len(shuffle_order) - 1
       /\ pl.before > 0 => index = pl.before - 1
       /\ pl.track = CurrentSong(index)
  /\ ((pl.op = "prev" /\ pl.prevOp = "next") \/ (pl.op = "next" /\ pl.prevOp = "prev"))
       => (index = pl.before2 /\ pl.track = CurrentSong(pl.before2))
  /\ (pl.op = "next" /\ pl.run = Len(shuffle_order))
       => (index = pl.start /\ pl.track = CurrentSong(pl.start))

\* three calls of next() on three tracks, started at the last position after
\* a prev() from the first, are back at the last position
CycleFromLast ==
  /\ Len(shuffle_order) = 3 /\ pl.op = "next" /\ pl.run = 3
  /\ pl.start = 2 /\ index = 2

\* C19 (under SpecPlaylist): after any calls of next(), prev() and
\* reshuffle(), has_next() answers false exactly at cursor size - 1 and
\* has_prev() answers false exactly at cursor 0, and neither moves the cursor.
QueriesMatchCursor ==
  /\ pl.op = "has_next" =>
       /\ (pl.answer = FALSE) <=> (index = Len(shuffle_order) - 1)
       /\ index = pl.before
  /\ pl.op = "has_prev" =>
       /\ (pl.answer = FALSE) <=> (index = 0)
       /\ index = pl.before

\* has_next() answered false at the last of three positions, reached by
\* prev() from the first
NoNextAtLast ==
  /\ pl.op = "has_next" /\ pl.prevOp = "prev" /\ ~pl.answer
  /\ Len(shuffle_order) = 3 /\ index = 2 /\ pl.before2 = 0

\* C20 (under SpecPlaylist): after reshuffle(), from any cursor position,
\* the cursor is 0, shuffle_order_ holds each of 0 .. size - 1 exactly once,
\* current() is one of the tracks, and size calls of next() reach the same
\* set of tracks as before the reshuffle.
ReshuffleIsPermutation ==
  pl.op = "reshuffle" =>
    /\ index = 0
    /\ \A k \in 0..(Len(shuffle_order) - 1) :
         Cardinality({a \in 1..Len(shuffle_order) : shuffle_order[a] = k}) = 1
    /\ CurrentSong(index) \in 1..Len(shuffle_order)
    /\ NextTracks(index, Len(shuffle_order)) = pl.reach

\* a reshuffle of three tracks, called at the last position, that changed
\* the order
ReshuffledFromLast ==
  /\ pl.op = "reshuffle" /\ pl.before = 2
  /\ Len(shuffle_order) = 3 /\ shuffle_order # <<0, 1, 2>>

\* C21 (under SpecQuit): once shutdown() has returned to start(), having
\* paused the player, the player is not in state PLAY, neither then nor
\* after the second shutdown() of ~CLI.
QuitStopsPlayer ==
  (cli.main \in {"sd2", "done"} /\ ~crashed) => state # "PLAY"

\* C22 (under SpecCtl): player_thread goes on to close an open track (line
\* 185) only when the last mpg123_read of this pass of stream_audio did not
\* return MPG123_OK, that is on the end of the track or a decode error; a
\* pass that ended because state_ had left PLAY does not close the track.
EndOfTrackOnlyOnExhaustion ==
  [][(pc["str"] = "eot_chk" /\ pc'["str"] = "eot_close" /\ decTrack # 0)
       => lastRead \in {"DONE", "ERR"}]_vars

\* C23 (under SpecTime): while a pause() of the command thread that found
\* the state PLAY is between its accumulation (line 149) and its store of
\* PAUSE (line 157), the elapsed seconds player_thread publishes are at most
\* the accumulated elapsed_duration_ plus the time that has passed since
\* the accumulation: the interval since start_time_ is not counted twice.
NoTornElapsed ==
  [][(pc["str"] = "sa_upd" /\ pc'["str"] # "sa_upd"
        /\ op["cmd"] = "pause" /\ pc["cmd"] \in {"p_snap", "p_dev", "p_store"}
        /\ state = "PLAY")
       => elapsed_seconds' <= elapsed_duration + (now - caller.now)]_vars

\* C24 (under SpecTime): with a track loaded, a pause() called while the
\* state is PAUSE or STOPPED leaves elapsed_duration_ as it is, and a resume() called while the state is PLAY
\* leaves the position elapsed_duration_ + (now - start_time_) as it is.
IdlePauseKeepsElapsed ==
  [][/\ (pc["cmd"] = "p_begin" /\ pc'["cmd"] # "p_begin" /\ decTrack # 0
          /\ state \in {"PAUSE", "STOPPED"})
          => elapsed_duration' = elapsed_duration
     /\ (pc["cmd"] = "r_begin" /\ pc'["cmd"] # "r_begin" /\ op["cmd"] = "resume"
          /\ state = "PLAY")
          => elapsed_duration' + (now' - start_time') = elapsed_duration + (now - start_time)]_vars

\* C25 (under SpecCtl): a thread that calls the device (the pause of
\* load_song and of pause(), the resume of resume() and of player_thread,
\* SDL_OpenAudioDevice, SDL_QueueAudio) holds audio_mutex_ at that moment,
\* so that no other thread holds it.
DeviceCallsHoldMutex ==
  [][\A t \in Threads :
       (/\ pc[t] \in {"l_pdev", "l_dev", "p_dev", "r_begin", "s_dev", "sa_queue"}
        /\ pc'[t] # pc[t]
        /\ ~(pc[t] = "r_begin" /\ state = "SWITCH_OFF"))
       => audio_mutex \in {"free", t}]_vars

\* C26 (under SpecTime): no thread holds audio_mutex_ while it sleeps or
\* waits: not player_thread in the SDL_Delay of wait_for_buffer_to_drain,
\* not the command thread in the fade wait of the resume() that
\* seek_relative calls.
NoWaitWithMutex ==
  /\ ~(audio_mutex = "str" /\ pc["str"] = "dr_delay")
  /\ ~(audio_mutex = "cmd" /\ pc["cmd"] = "r_store")

\* C27 (under SpecQueue): the backlog of the device never exceeds
\* BUFFER_MULTIPLIER + 1 buffers, whatever the device drains.
BacklogBounded == queued <= BUFFER_MULTIPLIER + 1

\* C28 (under SpecCtl): once the destructor has released the decoder
\* (mpg123_close, mpg123_delete), the streaming thread makes no call on it:
\* no mpg123_read, no mpg123_close, no mpg123_open.
NoUseAfterRelease ==
  [][(/\ pcD \in {"join", "done"}
      /\ pc'["str"] # pc["str"]
      /\ \/ pc["str"] \in {"eot_close", "l_open"}
         \/ pc["str"] = "sa_chk" /\ state = "PLAY")
       => FALSE]_vars

\* C29 (under SpecOff): once the destructor has stored SWITCH_OFF, the
\* streaming loop eventually leaves player_thread (or the process has been
\* terminated by an exception).
StreamingLoopExits == (pcD # "idle") ~> (pc["str"] = "exit" \/ crashed)

OneDeviceOpen == ~leaked

\* C32 (under SpecSeek): when a seek_relative that the decoder accepted
\* returns (the device handle was present and the player was not shutting
\* down), the state is PLAY.
AcceptedSeekEndsPlaying ==
  [][(pc["cmd"] = "sk_unlock" /\ pc'["cmd"] = "idle") => state' = "PLAY"]_vars

====
